---- MODULE Spec2Model ----
(***************************************************************************)
(* Model of chatbot.py: the on_message handler, chat_with_openai, the      *)
(* keep_typing task, the cooldown_user timer and split_message.            *)
(*                                                                         *)
(* asyncio runs one task at a time and switches tasks only at an await     *)
(* that really suspends.  Every action below is therefore the code that    *)
(* runs between two suspension points of one task.  The completion call    *)
(* openai.ChatCompletion.create (lines 99-102) is synchronous and is not   *)
(* awaited, so it is inside the step that starts at the top of on_message; *)
(* that step takes no model time, the time that passes between steps is    *)
(* the Tick action.                                                        *)
(***************************************************************************)
EXTENDS Integers, Sequences, FiniteSets, TLC

VARIABLES
    now,                    \* datetime.utcnow(), in seconds since start-up
    user_message_cache,     \* line 27: user -> deque of (role, content)
    user_cooldown,          \* line 28: user -> int, 0 = no cooldown
    user_last_interaction,  \* line 29: user -> {"time", "channel"}
    nev,                    \* number of events delivered to on_message so far
    task,                   \* event -> its on_message task: position and locals
    typing,                 \* event -> state of its typing_task
    signals,                \* event -> typing signals its typing_task has sent
    timer,                  \* event -> state of its cooldown_user task
    finished,               \* the handler that ended last: outcome, message, output
    resolved,               \* user -> events in the order their completion calls returned
    committed,              \* user -> every turn lines 111-112 appended, in order
    probe                   \* input and result of a stand-alone function call

vars == <<now, user_message_cache, user_cooldown, user_last_interaction, nev,
          task, typing, signals, timer, finished, resolved, committed, probe>>

(***************************************************************************)
(* Configuration and bounds                                                *)
(***************************************************************************)
MAX_CACHE == 2      \* line 18 reads it from the environment (default 5)
COOLDOWN_TIME == 2
RecencyWindow == 120
TypingInterval == 5

MaxEvents == 3      \* events delivered in one run
MaxTime == COOLDOWN_TIME   \* the clock runs for one cooldown period
ChunkLimit == 2     \* stand-in for the 2000-character limit of a Discord message
MaxLen == 5         \* longest text given to split_message on its own
MaxLimit == 3       \* largest limit given to split_message on its own

Users == {"u1", "u2"}
Channels == {"c1", "c2"}
Events == 1..MaxEvents

DatetimeMin == 0 - 1000000   \* datetime.min: long before start-up
NoChannel == "None"

Min(a, b) == IF a <= b THEN a ELSE b

(***************************************************************************)
(* split_message and the texts                                             *)
(***************************************************************************)
\* range(0, len(content), limit)
ChunkStarts(content, limit) == {i \in 0..(Len(content) - 1) : i % limit = 0}

\* Variant of Slice: the slice is one character short
SliceShort(content, i, limit) == SubSeq(content, i + 1, Min(i + limit - 1, Len(content)))

\* content[i:i+limit]: a slice stops at the end of the text
Slice(content, i, limit) == SubSeq(content, i + 1, Min(i + limit, Len(content)))

split_message(content, limit) ==
    [k \in 1..Cardinality(ChunkStarts(content, limit)) |->
        Slice(content, (k - 1) * limit, limit)]

\* split_message(content) as send_large_message calls it (the default limit)
Chunks(content) == split_message(content, ChunkLimit)

RECURSIVE Concat(_)
Concat(ss) == IF ss = <<>> THEN <<>> ELSE Head(ss) \o Concat(Tail(ss))

\* message.content of event e, and the reply of length n the service gives it
UserText(e) == <<e>>
ReplyText(e, n) == [i \in 1..n |-> 10 * e + i]
ReplyLens == {0, ChunkLimit + 1}

(***************************************************************************)
(* Turns.  The deque holds (role, content); ex names the exchange the turn *)
(* came from and is not read by the program.                               *)
(***************************************************************************)
UserTurn(e) == [role |-> "user", content |-> UserText(e), ex |-> e]
AssistantTurn(e, text) == [role |-> "assistant", content |-> text, ex |-> e]
SYSTEM_MESSAGE == <<0>>

ToMessage(t) == [role |-> t.role, content |-> t.content]

\* Variant of BuildMessages: the new user turn is put before the history
BuildMessagesNewFirst(history, e) ==
    <<[role |-> "system", content |-> SYSTEM_MESSAGE]>>
    \o <<[role |-> "user", content |-> UserText(e)]>>
    \o [i \in 1..Len(history) |-> ToMessage(history[i])]

\* lines 92-95
BuildMessages(history, e) ==
    <<[role |-> "system", content |-> SYSTEM_MESSAGE]>>
    \o [i \in 1..Len(history) |-> ToMessage(history[i])]
    \o <<[role |-> "user", content |-> UserText(e)]>>

\* Variant of UpdateCache: turns are removed until the new pair fits
UpdateCacheToCap(history, e, text) ==
    (IF Len(history) + 2 > MAX_CACHE
     THEN SubSeq(history, Min(Len(history), Len(history) + 2 - MAX_CACHE) + 1,
                 Len(history))
     ELSE history)
    \o <<UserTurn(e), AssistantTurn(e, text)>>

\* Variant of UpdateCache: lines 111 and 112 in the other order
UpdateCacheAssistantFirst(history, e, text) ==
    (IF Len(history) >= MAX_CACHE THEN Tail(history) ELSE history)
    \o <<AssistantTurn(e, text), UserTurn(e)>>

\* lines 109-112
UpdateCache(history, e, text) ==
    (IF Len(history) >= MAX_CACHE THEN Tail(history) ELSE history)
    \o <<UserTurn(e), AssistantTurn(e, text)>>

Refs == {"none", "bot", "other", "unresolved"}

\* Variant of ShouldRespond: the window test is strict
ShouldRespondStrict(mentioned, ref, last, t, channel) ==
    IF ref = "unresolved" THEN "raise"
    ELSE IF mentioned \/ ref = "bot"
              \/ (t - last.time < RecencyWindow /\ last.channel = channel)
         THEN "engage" ELSE "ignore"

(***************************************************************************)
(* on_message, lines 58-66: "engage", "ignore", or "raise" when            *)
(* message.reference.resolved has no author (None, or a deleted message).  *)
(***************************************************************************)
ShouldRespond(mentioned, ref, last, t, channel) ==
    IF ref = "unresolved" THEN "raise"
    ELSE LET replied_to_bot == ref = "bot"
             within_time == t - last.time <= RecencyWindow
             same_channel == last.channel = channel
         IN  IF mentioned \/ replied_to_bot \/ (within_time /\ same_channel)
             THEN "engage" ELSE "ignore"

(***************************************************************************)
(* Task states.  A handler that has ended leaves nothing behind but the    *)
(* record finished, which the next handler to end overwrites.              *)
(***************************************************************************)
NoMsg == [author |-> "nobody", channel |-> NoChannel]
NoTimer == [st |-> "none", due |-> 0, user |-> "nobody"]
NoTyping == [st |-> "none", wake |-> 0]
NoProbe == [kind |-> "none"]

Idle == [pc |-> "idle", msg |-> NoMsg, ai_text |-> <<>>, nsent |-> 0, trace |-> <<>>]
Done == [Idle EXCEPT !.pc = "done"]
\* what lines 59-60 found in a message; kept for a handler that ended in
\* the router
NoInput == [mentioned |-> FALSE, ref |-> "-"]
NoneFinished == [ex |-> 0, outcome |-> "none", msg |-> NoMsg, trace |-> <<>>,
                 input |-> NoInput]

Running == {"perm_notice", "cooldown_notice", "sending", "error_notice"}

Out(kind, text) == [kind |-> kind, text |-> text]

\* Task.cancel(): a task that is done or already cancelled is left alone
Cancel(t) ==
    IF t.st \in {"scheduled", "sleeping"} THEN [t EXCEPT !.st = "cancelling"] ELSE t

\* Variant of CancelOnFailure: the except branch does not cancel
LeftRunning(t) == t

\* line 103 and line 119
CancelOnSuccess(t) == Cancel(t)
CancelOnFailure(t) == Cancel(t)

Init ==
    /\ now = 0
    /\ user_message_cache = [u \in Users |-> <<>>]
    /\ user_cooldown = [u \in Users |-> 0]
    /\ user_last_interaction =
           [u \in Users |-> [time |-> DatetimeMin, channel |-> NoChannel]]
    /\ nev = 0
    /\ task = [e \in Events |-> Idle]
    /\ typing = [e \in Events |-> NoTyping]
    /\ signals = [e \in Events |-> 0]
    /\ timer = [e \in Events |-> NoTimer]
    /\ finished = NoneFinished
    /\ resolved = [u \in Users |-> <<>>]
    /\ committed = [u \in Users |-> <<>>]
    /\ probe = NoProbe

(***************************************************************************)
(* Pieces of the handler                                                   *)
(***************************************************************************)
\* Variant of StartCooldown: one flag for all users
StartCooldownAll(cd, u) == [v \in Users |-> COOLDOWN_TIME]

\* line 115
StartCooldown(cd, u) == [cd EXCEPT ![u] = COOLDOWN_TIME]

\* Variant of RecordInteraction: the channel is not stored
RecordInteractionNoChannel(m) ==
    user_last_interaction' =
        [user_last_interaction EXCEPT ![m.author] = [time |-> now, channel |-> NoChannel]]

\* line 75, after chat_with_openai has returned
RecordInteraction(m) ==
    user_last_interaction' =
        [user_last_interaction EXCEPT ![m.author] = [time |-> now, channel |-> m.channel]]

\* lines 108-116, the return to on_message and line 75: no await in between
Commit(e, m, text) ==
    /\ user_message_cache' =
           [user_message_cache EXCEPT ![m.author] = UpdateCache(@, e, text)]
    /\ user_cooldown' = StartCooldown(user_cooldown, m.author)
    /\ timer' = [timer EXCEPT ![e] = [st |-> "pending", due |-> now + COOLDOWN_TIME,
                                      user |-> m.author]]
    /\ committed' = [committed EXCEPT ![m.author] =
                         @ \o <<UserTurn(e), AssistantTurn(e, text)>>]
    /\ RecordInteraction(m)

\* on_message of event e has ended
Finish(e, outcome, m, tr) ==
    /\ task' = [task EXCEPT ![e] = Done]
    /\ finished' = [ex |-> e, outcome |-> outcome, msg |-> m, trace |-> tr,
                    input |-> NoInput]

\* on_message of event e has ended at line 60 or line 66
FinishInRouter(e, outcome, m, mentioned, ref) ==
    /\ task' = [task EXCEPT ![e] = Done]
    /\ finished' = [ex |-> e, outcome |-> outcome, msg |-> m, trace |-> <<>>,
                    input |-> [mentioned |-> mentioned, ref |-> ref]]

\* The step of a task made by create_task is already in the loop's ready
\* queue when its creator suspends, so it runs before any handler is resumed,
\* any new event is dispatched or any timer fires.
NoReadyTask == \A e \in Events : typing[e].st \notin {"scheduled", "cancelling"}

InFlight == {e \in Events : task[e].pc \in Running}

\* the next event is handed to on_message
Arrive(e) ==
    /\ NoReadyTask
    /\ nev < MaxEvents
    /\ e = nev + 1
    /\ nev' = e

\* lines 59-66 for a message of a user
Routed(m, mentioned, ref) ==
    ShouldRespond(mentioned, ref, user_last_interaction[m.author], now, m.channel)

\* Variant of Called: the history is not keyed by the author
RECURSIVE AllHistories(_)
AllHistories(us) ==
    IF us = {} THEN <<>>
    ELSE LET u == CHOOSE x \in us : TRUE
         IN  user_message_cache[u] \o AllHistories(us \ {u})

CalledShared(e, m) ==
    [Idle EXCEPT !.msg = m,
                 !.trace = <<Out("call", BuildMessages(AllHistories(Users), e))>>]

\* lines 89-95 and the call of lines 99-102 with the request built
Called(e, m) ==
    [Idle EXCEPT !.msg = m,
                 !.trace = <<Out("call", BuildMessages(user_message_cache[m.author], e))>>]


(***************************************************************************)
(* on_message from its start to its first suspension, one action per path  *)
(***************************************************************************)
\* lines 55-56
BotMessage(e) ==
    /\ Arrive(e)
    /\ Finish(e, "ignored", NoMsg, <<>>)
    /\ UNCHANGED <<now, user_message_cache, user_cooldown, user_last_interaction,
                   typing, signals, timer, resolved, committed, probe>>

\* line 60 raises AttributeError
RouterRaises(e, m, mentioned) ==
    /\ Arrive(e)
    /\ Routed(m, mentioned, "unresolved") = "raise"
    /\ FinishInRouter(e, "raised", m, mentioned, "unresolved")
    /\ UNCHANGED <<now, user_message_cache, user_cooldown, user_last_interaction,
                   typing, signals, timer, resolved, committed, probe>>

\* Variant of NotTargeted: the message is recorded as an interaction
NotTargetedRecorded(e, m, mentioned, ref) ==
    /\ Arrive(e)
    /\ Routed(m, mentioned, ref) = "ignore"
    /\ FinishInRouter(e, "ignored", m, mentioned, ref)
    /\ RecordInteraction(m)
    /\ UNCHANGED <<now, user_message_cache, user_cooldown,
                   typing, signals, timer, resolved, committed, probe>>

\* lines 65-66
NotTargeted(e, m, mentioned, ref) ==
    /\ Arrive(e)
    /\ Routed(m, mentioned, ref) = "ignore"
    /\ FinishInRouter(e, "ignored", m, mentioned, ref)
    /\ UNCHANGED <<now, user_message_cache, user_cooldown, user_last_interaction,
                   typing, signals, timer, resolved, committed, probe>>

\* line 69 raises AttributeError: message.guild is None outside a guild
PermissionRaises(e, m, mentioned, ref) ==
    /\ Arrive(e)
    /\ Routed(m, mentioned, ref) = "engage"
    /\ Finish(e, "raised", m, <<>>)
    /\ UNCHANGED <<now, user_message_cache, user_cooldown, user_last_interaction,
                   typing, signals, timer, resolved, committed, probe>>

\* lines 70-71, up to the await of the send
PermissionDenied(e, m, mentioned, ref) ==
    /\ Arrive(e)
    /\ Routed(m, mentioned, ref) = "engage"
    /\ task' = [task EXCEPT ![e] = [Idle EXCEPT !.pc = "perm_notice", !.msg = m]]
    /\ UNCHANGED <<now, user_message_cache, user_cooldown, user_last_interaction,
                   typing, signals, timer, finished, resolved, committed, probe>>

\* lines 74, 79-80, up to the await of the send
CooldownReject(e, m, mentioned, ref) ==
    /\ Arrive(e)
    /\ Routed(m, mentioned, ref) = "engage"
    /\ user_cooldown[m.author] # 0
    /\ task' = [task EXCEPT ![e] = [Idle EXCEPT !.pc = "cooldown_notice", !.msg = m]]
    /\ UNCHANGED <<now, user_message_cache, user_cooldown, user_last_interaction,
                   typing, signals, timer, finished, resolved, committed, probe>>

\* lines 74, 79, 89-102, then the call raises, or line 105 raises on a
\* malformed response; lines 119-121 up to the await of the send
CallFails(e, m, mentioned, ref) ==
    /\ Arrive(e)
    /\ Routed(m, mentioned, ref) = "engage"
    /\ user_cooldown[m.author] = 0
    /\ task' = [task EXCEPT ![e] = [Called(e, m) EXCEPT !.pc = "error_notice"]]
    /\ typing' = [typing EXCEPT ![e] = CancelOnFailure([st |-> "scheduled", wake |-> 0])]
    /\ UNCHANGED <<now, user_message_cache, user_cooldown, user_last_interaction,
                   signals, timer, finished, resolved, committed, probe>>

\* lines 74, 79, 89-106: the call returns a reply of n characters; with no
\* chunk to send nothing suspends and lines 108-116 and 75 follow at once
CallReturns(e, m, mentioned, ref, n) ==
    /\ Arrive(e)
    /\ Routed(m, mentioned, ref) = "engage"
    /\ user_cooldown[m.author] = 0
    /\ typing' = [typing EXCEPT ![e] = CancelOnSuccess([st |-> "scheduled", wake |-> 0])]
    /\ resolved' = [resolved EXCEPT ![m.author] = Append(@, e)]
    /\ IF Chunks(ReplyText(e, n)) = <<>>
       THEN /\ Commit(e, m, ReplyText(e, n))
            /\ Finish(e, "replied", m, Called(e, m).trace)
       ELSE /\ task' = [task EXCEPT ![e] =
                           [Called(e, m) EXCEPT !.pc = "sending",
                                                !.ai_text = ReplyText(e, n)]]
            /\ UNCHANGED <<user_message_cache, user_cooldown, user_last_interaction,
                           timer, committed, finished>>
    /\ UNCHANGED <<now, signals, probe>>

(***************************************************************************)
(* Resumptions of a suspended handler                                      *)
(***************************************************************************)
\* Variant of ChunkSent: lines 108-116 run after the first send
ChunkSentCommitsFirst(e) ==
    /\ NoReadyTask
    /\ task[e].pc = "sending"
    /\ LET t == task[e]
           tr == Append(t.trace, Out("chunk", Chunks(t.ai_text)[t.nsent + 1]))
       IN  /\ Commit(e, t.msg, t.ai_text)
           /\ Finish(e, "replied", t.msg, tr)
    /\ UNCHANGED <<now, nev, typing, signals, resolved, probe>>

\* line 43: one send of send_large_message returns; after the last one
\* lines 108-116 and 75 run
ChunkSent(e) ==
    /\ NoReadyTask
    /\ task[e].pc = "sending"
    /\ LET t == task[e]
           tr == Append(t.trace, Out("chunk", Chunks(t.ai_text)[t.nsent + 1]))
       IN  IF t.nsent + 1 = Len(Chunks(t.ai_text))
           THEN /\ Commit(e, t.msg, t.ai_text)
                /\ Finish(e, "replied", t.msg, tr)
           ELSE /\ task' = [task EXCEPT ![e].nsent = @ + 1, ![e].trace = tr]
                /\ UNCHANGED <<user_message_cache, user_cooldown,
                               user_last_interaction, timer, committed, finished>>
    /\ UNCHANGED <<now, nev, typing, signals, resolved, probe>>

\* Variant of ChunkRaises: the except branch starts the cooldown
ChunkRaisesArming(e) ==
    /\ NoReadyTask
    /\ task[e].pc = "sending"
    /\ task' = [task EXCEPT ![e].pc = "error_notice"]
    /\ typing' = [typing EXCEPT ![e] = CancelOnFailure(@)]
    /\ user_cooldown' = StartCooldown(user_cooldown, task[e].msg.author)
    /\ UNCHANGED <<now, user_message_cache, user_last_interaction,
                   nev, signals, timer, finished, resolved, committed, probe>>

\* line 43 raises; lines 118-121 up to the await of the send
ChunkRaises(e) ==
    /\ NoReadyTask
    /\ task[e].pc = "sending"
    /\ task' = [task EXCEPT ![e].pc = "error_notice"]
    /\ typing' = [typing EXCEPT ![e] = CancelOnFailure(@)]
    /\ UNCHANGED <<now, user_message_cache, user_cooldown, user_last_interaction,
                   nev, signals, timer, finished, resolved, committed, probe>>

\* Variant of PermissionNoticeSent: without the return of line 72 the
\* handler goes on to the cooldown check of line 79
PermissionNoticeSentNoReturn(e) ==
    /\ NoReadyTask
    /\ task[e].pc = "perm_notice"
    /\ task' = [task EXCEPT ![e].pc = "cooldown_notice",
                            ![e].trace = Append(@, Out("permission_notice", <<>>))]
    /\ UNCHANGED <<now, user_message_cache, user_cooldown, user_last_interaction,
                   nev, typing, signals, timer, finished, resolved, committed, probe>>

\* line 71 returns, line 72
PermissionNoticeSent(e) ==
    /\ NoReadyTask
    /\ task[e].pc = "perm_notice"
    /\ Finish(e, "denied", task[e].msg,
              Append(task[e].trace, Out("permission_notice", <<>>)))
    /\ UNCHANGED <<now, user_message_cache, user_cooldown, user_last_interaction,
                   nev, typing, signals, timer, resolved, committed, probe>>

\* Variant of CooldownNoticeSent: the rejection starts the cooldown again
CooldownNoticeSentArming(e) ==
    /\ NoReadyTask
    /\ task[e].pc = "cooldown_notice"
    /\ Finish(e, "rejected", task[e].msg,
              Append(task[e].trace, Out("cooldown_notice", <<>>)))
    /\ RecordInteraction(task[e].msg)
    /\ user_cooldown' = StartCooldown(user_cooldown, task[e].msg.author)
    /\ timer' = [timer EXCEPT ![e] = [st |-> "pending", due |-> now + COOLDOWN_TIME,
                                      user |-> task[e].msg.author]]
    /\ UNCHANGED <<now, user_message_cache, nev, typing, signals,
                   resolved, committed, probe>>

\* line 80 returns, line 81, line 75
CooldownNoticeSent(e) ==
    /\ NoReadyTask
    /\ task[e].pc = "cooldown_notice"
    /\ Finish(e, "rejected", task[e].msg,
              Append(task[e].trace, Out("cooldown_notice", <<>>)))
    /\ RecordInteraction(task[e].msg)
    /\ UNCHANGED <<now, user_message_cache, user_cooldown, nev, typing, signals,
                   timer, resolved, committed, probe>>

\* line 121 returns, line 75
ErrorNoticeSent(e) ==
    /\ NoReadyTask
    /\ task[e].pc = "error_notice"
    /\ Finish(e, "failed", task[e].msg,
              Append(task[e].trace, Out("error_notice", <<>>)))
    /\ RecordInteraction(task[e].msg)
    /\ UNCHANGED <<now, user_message_cache, user_cooldown, nev, typing, signals,
                   timer, resolved, committed, probe>>

\* the send of line 71, 80 or 121 raises: the exception leaves on_message
NoticeRaises(e) ==
    /\ NoReadyTask
    /\ task[e].pc \in {"perm_notice", "cooldown_notice", "error_notice"}
    /\ Finish(e, "raised", task[e].msg, task[e].trace)
    /\ UNCHANGED <<now, user_message_cache, user_cooldown, user_last_interaction,
                   nev, typing, signals, timer, resolved, committed, probe>>

(***************************************************************************)
(* The other tasks and the clock                                           *)
(***************************************************************************)
\* lines 84-87: one step of typing_task.  A task cancelled before its first
\* step, or while it sleeps, gets CancelledError and ends; otherwise it
\* signals and sleeps again.
KeepTypingStep(e) ==
    /\ \/ typing[e].st \in {"scheduled", "cancelling"}
       \/ typing[e].st = "sleeping" /\ now >= typing[e].wake /\ NoReadyTask
    /\ IF typing[e].st = "cancelling"
       THEN /\ typing' = [typing EXCEPT ![e] = NoTyping]
            /\ UNCHANGED signals
       ELSE /\ typing' = [typing EXCEPT ![e] =
                             [st |-> "sleeping", wake |-> now + TypingInterval]]
            /\ signals' = [signals EXCEPT ![e] = @ + 1]
    /\ UNCHANGED <<now, user_message_cache, user_cooldown, user_last_interaction,
                   nev, task, timer, finished, resolved, committed, probe>>

\* Variant of CooldownExpires: the task ends without line 125
CooldownExpiresKeeping(e) ==
    /\ NoReadyTask
    /\ timer[e].st = "pending"
    /\ now >= timer[e].due
    /\ timer' = [timer EXCEPT ![e] = NoTimer]
    /\ UNCHANGED <<now, user_message_cache, user_cooldown, user_last_interaction,
                   nev, task, typing, signals, finished, resolved, committed, probe>>

\* lines 123-125: the sleep of cooldown_user is over
CooldownExpires(e) ==
    /\ NoReadyTask
    /\ timer[e].st = "pending"
    /\ now >= timer[e].due
    /\ user_cooldown' = [user_cooldown EXCEPT ![timer[e].user] = 0]
    /\ timer' = [timer EXCEPT ![e] = NoTimer]
    /\ UNCHANGED <<now, user_message_cache, user_last_interaction, nev, task,
                   typing, signals, finished, resolved, committed, probe>>

\* The clock is followed while some task sleeps; with no sleeper its only
\* reader is line 62, whose window is far longer than MaxTime.
Tick ==
    /\ NoReadyTask
    /\ \E e \in Events : timer[e].st = "pending" \/ typing[e].st = "sleeping"
    /\ now < MaxTime
    /\ now' = now + 1
    /\ UNCHANGED <<user_message_cache, user_cooldown, user_last_interaction, nev,
                   task, typing, signals, timer, finished, resolved, committed,
                   probe>>

Msgs == [author : Users, channel : Channels]
SoloMsgs == {m \in Msgs : m.author = "u1" /\ m.channel = "c1"}

\* an event with a message of M is delivered
Deliver(M, K) ==
    \/ \E e \in 1..K : BotMessage(e)
    \/ \E e \in 1..K, m \in M, mentioned \in BOOLEAN :
           RouterRaises(e, m, mentioned)
    \/ \E e \in 1..K, m \in M, mentioned \in BOOLEAN, ref \in Refs :
           \/ NotTargeted(e, m, mentioned, ref)
           \/ PermissionRaises(e, m, mentioned, ref)
           \/ PermissionDenied(e, m, mentioned, ref)
           \/ CooldownReject(e, m, mentioned, ref)
           \/ CallFails(e, m, mentioned, ref)
           \/ \E n \in ReplyLens : CallReturns(e, m, mentioned, ref, n)

\* a suspended task goes on, or the clock does
Resume ==
    \/ \E e \in Events :
           \/ ChunkSent(e)
           \/ ChunkRaises(e)
           \/ PermissionNoticeSent(e)
           \/ CooldownNoticeSent(e)
           \/ ErrorNoticeSent(e)
           \/ NoticeRaises(e)
           \/ KeepTypingStep(e)
           \/ CooldownExpires(e)
    \/ Tick

\* The ids of users and channels are interchangeable: the first message
\* delivered is named as coming from u1 in c1
NewMsgs == IF nev = 0 THEN SoloMsgs ELSE Msgs

\* Two users in two channels, one event fewer than the bound
Next == Deliver(NewMsgs, MaxEvents - 1) \/ Resume

Spec == Init /\ [][Next]_vars

\* One user in one channel
NextSolo == Deliver(SoloMsgs, MaxEvents) \/ Resume

SpecSolo == Init /\ [][NextSolo]_vars

\* line 124: the clock goes on past MaxTime for as long as a cooldown_user
\* task sleeps
TickToExpiry ==
    /\ NoReadyTask
    /\ now >= MaxTime
    /\ \E e \in Events : timer[e].st = "pending" /\ now < timer[e].due
    /\ now' = now + 1
    /\ UNCHANGED <<user_message_cache, user_cooldown, user_last_interaction, nev,
                   task, typing, signals, timer, finished, resolved, committed,
                   probe>>

\* One user in one channel, one event fewer than the bound, every sleep of
\* cooldown_user followed to its end.  The event loop runs every task that
\* is ready and every timer that is due, and time passes.
NextLive == Deliver(SoloMsgs, MaxEvents - 1) \/ Resume \/ TickToExpiry

SpecLive ==
    /\ Init
    /\ [][NextLive]_vars
    /\ WF_vars(Tick)
    /\ WF_vars(TickToExpiry)
    /\ \A e \in Events : WF_vars(CooldownExpires(e))
    /\ \A e \in Events : WF_vars(KeepTypingStep(e))

(***************************************************************************)
(* The router alone: lines 59-66 applied to one message in a state with a  *)
(* given clock and given last interactions.                                *)
(***************************************************************************)
RouterNows == {0, RecencyWindow - 1, RecencyWindow, RecencyWindow + 1}
LastValues ==
    {[time |-> DatetimeMin, channel |-> NoChannel]}
    \cup [time : 0..MaxTime, channel : Channels]

InitRouter ==
    /\ now \in RouterNows
    /\ user_message_cache = [u \in Users |-> <<>>]
    /\ user_cooldown = [u \in Users |-> 0]
    /\ user_last_interaction \in [Users -> LastValues]
    /\ nev = 0
    /\ task = [e \in Events |-> Idle]
    /\ typing = [e \in Events |-> NoTyping]
    /\ signals = [e \in Events |-> 0]
    /\ timer = [e \in Events |-> NoTimer]
    /\ finished = NoneFinished
    /\ resolved = [u \in Users |-> <<>>]
    /\ committed = [u \in Users |-> <<>>]
    /\ probe = NoProbe

RouterProbe(m, mentioned, ref) ==
    /\ probe' = [kind |-> "router", msg |-> m, mentioned |-> mentioned, ref |-> ref,
                 result |-> Routed(m, mentioned, ref)]
    /\ UNCHANGED <<now, user_message_cache, user_cooldown, user_last_interaction,
                   nev, task, typing, signals, timer, finished, resolved, committed>>

NextRouter == \E m \in Msgs, mentioned \in BOOLEAN, ref \in Refs : RouterProbe(m, mentioned, ref)

SpecRouter == InitRouter /\ [][NextRouter]_vars

(***************************************************************************)
(* split_message alone                                                     *)
(***************************************************************************)
Letters == {"a", "b"}
Texts == UNION {[1..n -> Letters] : n \in 0..MaxLen}

InitSplit ==
    /\ now = 0
    /\ user_message_cache = [u \in Users |-> <<>>]
    /\ user_cooldown = [u \in Users |-> 0]
    /\ user_last_interaction =
           [u \in Users |-> [time |-> DatetimeMin, channel |-> NoChannel]]
    /\ nev = 0
    /\ task = [e \in Events |-> Idle]
    /\ typing = [e \in Events |-> NoTyping]
    /\ signals = [e \in Events |-> 0]
    /\ timer = [e \in Events |-> NoTimer]
    /\ finished = NoneFinished
    /\ resolved = [u \in Users |-> <<>>]
    /\ committed = [u \in Users |-> <<>>]
    /\ probe \in [kind : {"text"}, content : Texts, limit : 1..MaxLimit]

SplitProbe ==
    /\ probe.kind = "text"
    /\ probe' = [kind |-> "chunks", content |-> probe.content, limit |-> probe.limit,
                 chunks |-> split_message(probe.content, probe.limit)]
    /\ UNCHANGED <<now, user_message_cache, user_cooldown, user_last_interaction,
                   nev, task, typing, signals, timer, finished, resolved, committed>>

NextSplit == SplitProbe

SpecSplit == InitSplit /\ [][NextSplit]_vars

(***************************************************************************)
(* Helpers of the properties                                               *)
(***************************************************************************)
\* the handler of event e ends in this step
Ends(e) == task[e].pc # "done" /\ task'[e].pc = "done"

\* the handler of event e, of user u, makes its completion call in this step
Calls(e, u) ==
    /\ task[e].pc = "idle"
    /\ \/ task'[e].trace # <<>> /\ task'[e].msg.author = u
       \/ Ends(e) /\ finished'.trace # <<>> /\ finished'.msg.author = u

\* the request of that call
Request(e) == IF Ends(e) THEN finished'.trace[1].text ELSE task'[e].trace[1].text

\* an arming of u's cooldown is less than COOLDOWN_TIME old
Armed(u) ==
    \E e \in Events : timer[e].st = "pending" /\ timer[e].user = u /\ now < timer[e].due

\* the exchanges of a sequence of turns, in order
ExchangesOf(turns) ==
    LET own == SelectSeq(turns, LAMBDA t : t.role = "user")
    IN  [i \in 1..Len(own) |-> own[i].ex]

\* where x stands in a sequence without repetition, 0 when it is absent
Position(seq, x) ==
    IF \E i \in 1..Len(seq) : seq[i] = x
    THEN CHOOSE i \in 1..Len(seq) : seq[i] = x ELSE 0

\* the last k elements of a sequence
LastOf(seq, k) == SubSeq(seq, Len(seq) - k + 1, Len(seq))

(***************************************************************************)
(* C1: in every reachable state the history of every user holds at most    *)
(* MAX_CACHE turns.                                                        *)
(***************************************************************************)
C1_HistoryWithinCap ==
    \A u \in Users : Len(user_message_cache[u]) <= MAX_CACHE

(***************************************************************************)
(* C2: while an arming of a user's cooldown is less than COOLDOWN_TIME old *)
(* no event of that user gets past the cooldown check to a completion      *)
(* call.                                                                   *)
(***************************************************************************)
C2_CooldownLastsItsTime ==
    [][\A u \in Users : Armed(u) => ~ \E e \in Events : Calls(e, u)]_vars

(***************************************************************************)
(* C3: every step of a handler on its way to a failure, from the           *)
(* completion call to the end of the except branch, leaves every history,  *)
(* every cooldown flag and every cooldown timer as they were; a step that  *)
(* ends a handler in failure leaves the user's cooldown flag clear if it   *)
(* was clear.                                                              *)
(***************************************************************************)
OnFailurePath(e) ==
    \/ task'[e] # task[e] /\ task'[e].pc \in {"sending", "error_notice"}
    \/ task[e].pc = "error_notice" /\ Ends(e)

C3_FailureKeepsState ==
    [][\A e \in Events : OnFailurePath(e) =>
          /\ user_message_cache' = user_message_cache
          /\ user_cooldown' = user_cooldown
          /\ timer' = timer]_vars

\* a delivery failed after a chunk was sent, the handler has ended, and the
\* user is not in cooldown
C3_Witness ==
    /\ finished.outcome = "failed"
    /\ \E i \in 1..Len(finished.trace) : finished.trace[i].kind = "chunk"
    /\ user_cooldown[finished.msg.author] = 0
    /\ user_message_cache[finished.msg.author] = <<>>

Returned == {"replied", "failed", "rejected"}

C4_ChangeMeansReturn ==
    \A u \in Users :
        user_last_interaction'[u] # user_last_interaction[u] =>
            /\ finished' # finished
            /\ finished'.outcome \in Returned
            /\ finished'.msg.author = u

C4_ReturnRecords ==
    (finished' # finished /\ finished'.outcome \in Returned) =>
        user_last_interaction'[finished'.msg.author] =
            [time |-> now, channel |-> finished'.msg.channel]

C4_OtherEndsKeep ==
    (finished' # finished /\ finished'.outcome \notin Returned) =>
        user_last_interaction' = user_last_interaction

C5_Claimed(p) ==
    LET last == user_last_interaction[p.msg.author]
    IN  \/ p.mentioned
        \/ p.ref = "bot"
        \/ now - last.time <= RecencyWindow /\ last.channel = p.msg.channel

C5_RouterEngagesIff ==
    probe.kind = "router" => (probe.result = "engage" <=> C5_Claimed(probe))

(***************************************************************************)
(* C6 as claimed: the request of a completion call made for a user after N *)
(* of that user's exchanges were committed is the system instruction, the  *)
(* 2N turns of those exchanges in the order they were appended, and the    *)
(* new user turn.                                                          *)
(***************************************************************************)
ToMessages(turns) == [i \in 1..Len(turns) |-> ToMessage(turns[i])]

RequestWith(turns, e) ==
    <<[role |-> "system", content |-> SYSTEM_MESSAGE]>>
    \o ToMessages(turns)
    \o <<[role |-> "user", content |-> UserText(e)]>>

C6_RequestHoldsAllTurns ==
    [][\A u \in Users, e \in Events :
          Calls(e, u) => Request(e) = RequestWith(committed[u], e)]_vars

(***************************************************************************)
(* C6 as amended: the request holds the system instruction, then the most  *)
(* recent min(2N, N + ceil(MAX_CACHE/2)) of those 2N turns in the order    *)
(* they were appended, then the new user turn.                             *)
(***************************************************************************)
Kept(n) == Min(2 * n, n + (MAX_CACHE + 1) \div 2)

C6_RequestHoldsKeptTurns ==
    [][\A u \in Users, e \in Events :
          Calls(e, u) =>
              Request(e) =
                  RequestWith(LastOf(committed[u], Kept(Len(committed[u]) \div 2)), e)]_vars

\* a handler is suspended whose request was built from a history that had
\* lost a turn
C6_Witness ==
    \E e \in Events :
        /\ task[e].pc = "sending"
        /\ Len(task[e].trace[1].text) > 2
        /\ Len(task[e].trace[1].text) - 2 < Len(committed[task[e].msg.author])
        /\ task[e].trace[1].text =
               BuildMessages(user_message_cache[task[e].msg.author], e)

(***************************************************************************)
(* C7: split_message(text, limit) with limit >= 1 gives chunks whose       *)
(* concatenation is text, each of 1 to limit characters, ceil(L/limit) of  *)
(* them (none when L = 0), all but the last of exactly limit characters.   *)
(***************************************************************************)
C7_SplitCorrect ==
    probe.kind = "chunks" =>
        LET cs == probe.chunks
            L == Len(probe.content)
        IN  /\ Concat(cs) = probe.content
            /\ \A k \in 1..Len(cs) : 1 <= Len(cs[k]) /\ Len(cs[k]) <= probe.limit
            /\ Len(cs) = (L + probe.limit - 1) \div probe.limit
            /\ \A k \in 1..(Len(cs) - 1) : Len(cs[k]) = probe.limit

\* a text that needs several chunks, the last one short
C7_Witness ==
    /\ probe.kind = "chunks"
    /\ Len(probe.chunks) >= 2
    /\ Len(probe.content) % probe.limit # 0

(***************************************************************************)
(* C8: once the call of an admitted event has returned or failed its       *)
(* typing task is cancelled; no typing task is alive and uncancelled while *)
(* no handler waits for a completion call, which no suspended handler      *)
(* does; a handler that has ended gets no further typing signal.           *)
(***************************************************************************)
C8_NoneLeftRunning ==
    \A e \in Events : typing[e].st \in {"none", "cancelling"}

C8_NoLateSignal ==
    \A e \in Events : signals'[e] # signals[e] => task[e].pc \notin {"idle", "done"}

C8_TypingStopped == []C8_NoneLeftRunning /\ [][C8_NoLateSignal]_vars

\* a handler that made its call has ended in failure and its typing task
\* is gone without a signal
C8_Witness ==
    /\ finished.outcome = "failed"
    /\ finished.trace # <<>>
    /\ typing[finished.ex].st = "none"
    /\ signals[finished.ex] = 0

(***************************************************************************)
(* C9: the exchanges of a user are appended to the history in the order    *)
(* in which their completion calls returned.                               *)
(***************************************************************************)
C9_CommitInResolutionOrder ==
    \A u \in Users :
        LET ex == ExchangesOf(committed[u])
        IN  \A i, j \in 1..Len(ex) :
                i < j => Position(resolved[u], ex[i]) < Position(resolved[u], ex[j])

(***************************************************************************)
(* C10: in every state each user turn of a history is directly followed by *)
(* the assistant turn of the same exchange and the history is the tail of  *)
(* everything appended for the user; every step that changes a history     *)
(* appends the two turns of one exchange together, after removing at most  *)
(* the oldest turn.                                                        *)
(***************************************************************************)
C10_PairsTogether ==
    \A u \in Users :
        LET h == user_message_cache[u]
        IN  /\ \A i \in 1..Len(h) :
                   h[i].role = "user" =>
                       /\ i < Len(h)
                       /\ h[i + 1].role = "assistant"
                       /\ h[i + 1].ex = h[i].ex
            /\ Len(h) <= Len(committed[u])
            /\ h = LastOf(committed[u], Len(h))

C10_AppendsPair ==
    \A u \in Users :
        LET h == user_message_cache[u]
            g == user_message_cache'[u]
        IN  g # h =>
                /\ Len(g) >= 2
                /\ g[Len(g) - 1].role = "user"
                /\ g[Len(g)].role = "assistant"
                /\ g[Len(g)].ex = g[Len(g) - 1].ex
                /\ \/ SubSeq(g, 1, Len(g) - 2) = h
                   \/ h # <<>> /\ SubSeq(g, 1, Len(g) - 2) = Tail(h)

C10_CommitAtomic == []C10_PairsTogether /\ [][C10_AppendsPair]_vars

\* two exchanges of a user that overlapped are both in the history, appended
\* in the order opposite to the one they started in
C10_Witness ==
    \E u \in Users :
        /\ Len(committed[u]) >= 4
        /\ committed[u][1].ex > committed[u][3].ex
        /\ Len(user_message_cache[u]) >= 3

(***************************************************************************)
(* C11: a handler whose message is from a bot, or whose message neither    *)
(* mentions the bot nor replies to a message of the bot nor comes within   *)
(* the recency window in the channel of the author's last interaction,     *)
(* ends without output: no message, no typing signal, no typing task, no   *)
(* completion call, and history, cooldown, timers and lastInteraction of   *)
(* every user stay as they were.                                           *)
(***************************************************************************)
\* the handler of e starts and ends in this step, in the router or before it
EndsInRouter(e) ==
    /\ task[e].pc = "idle"
    /\ Ends(e)
    /\ \/ finished'.msg = NoMsg
       \/ finished'.input # NoInput

\* none of the three conditions of line 65 holds for the message that ended
NoCondition ==
    LET last == user_last_interaction[finished'.msg.author]
    IN  /\ ~ finished'.input.mentioned
        /\ finished'.input.ref # "bot"
        /\ ~ (now - last.time <= RecencyWindow /\ last.channel = finished'.msg.channel)

C11_IgnoredStep ==
    \A e \in Events :
        (EndsInRouter(e) /\ (finished'.msg = NoMsg \/ NoCondition)) =>
            /\ finished'.trace = <<>>
            /\ signals' = signals
            /\ typing' = typing
            /\ timer' = timer
            /\ user_message_cache' = user_message_cache
            /\ user_cooldown' = user_cooldown
            /\ user_last_interaction' = user_last_interaction
            /\ committed' = committed
            /\ resolved' = resolved

C11_IgnoredEntirely == [][C11_IgnoredStep]_vars

\* a message was ignored that came from a user who has a history, a running
\* cooldown and a recent interaction in the other channel
C11_Witness ==
    /\ finished.outcome = "ignored"
    /\ finished.msg # NoMsg
    /\ user_message_cache[finished.msg.author] # <<>>
    /\ user_cooldown[finished.msg.author] # 0
    /\ user_last_interaction[finished.msg.author].channel
           \notin {NoChannel, finished.msg.channel}

(***************************************************************************)
(* C12: a handler that finds the author without permission sends the       *)
(* permission notice once and nothing else: it makes no completion call,   *)
(* starts no typing task, never reaches the cooldown check (so never sends *)
(* the cooldown notice) and leaves history, cooldown, timers and           *)
(* lastInteraction unchanged.                                              *)
(***************************************************************************)
SessionsUnchanged ==
    /\ user_message_cache' = user_message_cache
    /\ user_cooldown' = user_cooldown
    /\ user_last_interaction' = user_last_interaction
    /\ timer' = timer
    /\ committed' = committed
    /\ resolved' = resolved

\* the send of line 71 is issued: once, from the start of the handler
C12_Denied(e) ==
    (task[e].pc # "perm_notice" /\ task'[e].pc = "perm_notice") =>
        /\ task[e].pc = "idle"
        /\ task'[e].trace = <<>>
        /\ typing' = typing
        /\ signals' = signals
        /\ SessionsUnchanged

\* the send of line 71 is over: the handler ends
C12_AfterNotice(e) ==
    (task[e].pc = "perm_notice" /\ task'[e] # task[e]) =>
        /\ Ends(e)
        /\ finished'.outcome \in {"denied", "raised"}
        /\ finished'.outcome = "denied" =>
               finished'.trace = <<Out("permission_notice", <<>>)>>
        /\ finished'.outcome = "raised" => finished'.trace = <<>>
        /\ typing' = typing
        /\ signals' = signals
        /\ SessionsUnchanged

C12_PermissionDenial ==
    [][\A e \in Events : C12_Denied(e) /\ C12_AfterNotice(e)]_vars

\* a user in cooldown, with a history, was denied and got the permission
\* notice
C12_Witness ==
    /\ finished.outcome = "denied"
    /\ finished.trace = <<Out("permission_notice", <<>>)>>
    /\ user_cooldown[finished.msg.author] # 0
    /\ user_message_cache[finished.msg.author] # <<>>

(***************************************************************************)
(* C13: a handler that finds the user in cooldown sends the cooldown       *)
(* notice once and nothing else: no completion call, no typing task, the   *)
(* history and the cooldown flag unchanged, no expiry scheduled.  The flag *)
(* is set, and an expiry scheduled, only in the step that commits a        *)
(* successful exchange of that user.                                       *)
(***************************************************************************)
CooldownUntouched ==
    /\ user_message_cache' = user_message_cache
    /\ user_cooldown' = user_cooldown
    /\ timer' = timer
    /\ committed' = committed
    /\ resolved' = resolved

\* the send of line 80 is issued: once, from the start of the handler, for a
\* user whose flag is set
C13_Rejected(e) ==
    (task[e].pc # "cooldown_notice" /\ task'[e].pc = "cooldown_notice") =>
        /\ task[e].pc = "idle"
        /\ user_cooldown[task'[e].msg.author] # 0
        /\ task'[e].trace = <<>>
        /\ typing' = typing
        /\ signals' = signals
        /\ CooldownUntouched

\* the send of line 80 is over: the handler ends
C13_AfterNotice(e) ==
    (task[e].pc = "cooldown_notice" /\ task'[e] # task[e]) =>
        /\ Ends(e)
        /\ finished'.outcome \in {"rejected", "raised"}
        /\ finished'.outcome = "rejected" =>
               finished'.trace = <<Out("cooldown_notice", <<>>)>>
        /\ finished'.outcome = "raised" => finished'.trace = <<>>
        /\ typing' = typing
        /\ signals' = signals
        /\ CooldownUntouched

\* the flag is set and an expiry is scheduled only by a commit
C13_OnlyCommitArms ==
    /\ \A u \in Users :
           (user_cooldown'[u] # user_cooldown[u] /\ user_cooldown'[u] # 0) =>
               \E e \in Events :
                   /\ Ends(e)
                   /\ finished'.outcome = "replied"
                   /\ finished'.msg.author = u
                   /\ Len(committed'[u]) = Len(committed[u]) + 2
    /\ \A e \in Events :
           (timer'[e] # timer[e] /\ timer'[e].st = "pending") =>
               /\ Ends(e)
               /\ finished'.outcome = "replied"
               /\ timer'[e].user = finished'.msg.author

C13_RejectionArmsNothing ==
    [][/\ \A e \in Events : C13_Rejected(e) /\ C13_AfterNotice(e)
       /\ C13_OnlyCommitArms]_vars

\* a user was rejected and got the notice while the user's cooldown still runs
C13_Witness ==
    /\ finished.outcome = "rejected"
    /\ finished.trace = <<Out("cooldown_notice", <<>>)>>
    /\ user_cooldown[finished.msg.author] # 0
    /\ \E e \in Events : timer[e].st = "pending" /\ timer[e].user = finished.msg.author

(***************************************************************************)
(* C14: a user's cooldown flag, once set, is eventually clear again.  Each *)
(* commit schedules one expiry for its user, due COOLDOWN_TIME later; a    *)
(* scheduled expiry is never cancelled or changed, it fires no earlier     *)
(* than its due time and clears the flag of its user; and a handler of a   *)
(* user whose flag is clear is not rejected for cooldown.                  *)
(***************************************************************************)
C14_ExpiryStep(e) ==
    /\ (timer[e].st # "pending" /\ timer'[e].st = "pending") =>
           /\ timer'[e].due = now + COOLDOWN_TIME
           /\ user_cooldown'[timer'[e].user] = COOLDOWN_TIME
           /\ \A d \in Events \ {e} : timer'[d] = timer[d]
    /\ (timer[e].st = "pending" /\ timer'[e] # timer[e]) =>
           /\ timer'[e] = NoTimer
           /\ now >= timer[e].due
           /\ user_cooldown'[timer[e].user] = 0

C14_ClearMeansAdmitted(e) ==
    (task[e].pc = "idle" /\ task'[e].pc = "cooldown_notice") =>
        user_cooldown[task'[e].msg.author] # 0

C14_Eventually ==
    \A u \in Users : (user_cooldown[u] # 0) ~> (user_cooldown[u] = 0)

C14_CooldownEnds ==
    /\ C14_Eventually
    /\ [][\A e \in Events : C14_ExpiryStep(e) /\ C14_ClearMeansAdmitted(e)]_vars

\* a cooldown armed after the start has run to its end and the flag is clear
C14_Witness ==
    \E u \in Users :
        /\ committed[u] # <<>>
        /\ user_cooldown[u] = 0
        /\ now > COOLDOWN_TIME
        /\ \A e \in Events : timer[e].st # "pending"

(***************************************************************************)
(* C15: a commit turns the history h of its user into h' by removing the   *)
(* oldest turn when Len(h) >= MAX_CACHE, and nothing otherwise, and then   *)
(* appending the user turn and the assistant turn of the exchange in that  *)
(* order: Len(h') is Len(h) + 2 below the cap and Len(h) + 1 from the cap  *)
(* on, and the turns of h that stay keep their order.                      *)
(***************************************************************************)
C15_Commit(u) ==
    LET h == user_message_cache[u]
        g == user_message_cache'[u]
        kept == IF Len(h) >= MAX_CACHE THEN Tail(h) ELSE h
    IN  g # h =>
            /\ Len(g) = IF Len(h) < MAX_CACHE THEN Len(h) + 2 ELSE Len(h) + 1
            /\ \A i \in 1..Len(kept) : g[i] = kept[i]
            /\ g[Len(g) - 1].role = "user"
            /\ g[Len(g)].role = "assistant"
            /\ g[Len(g) - 1].ex = g[Len(g)].ex
            /\ \E e \in Events :
                   /\ Ends(e)
                   /\ finished'.outcome = "replied"
                   /\ finished'.msg.author = u
                   /\ g[Len(g) - 1] = UserTurn(e)
                   /\ g[Len(g)].ex = e

C15_CommitTransform == [][\A u \in Users : C15_Commit(u)]_vars

\* a history that has gone through a commit below the cap and two at or
\* above it
C15_Witness ==
    \E u \in Users :
        /\ Len(committed[u]) = 6
        /\ Len(user_message_cache[u]) = 4
        /\ user_message_cache[u][1].role = "user"

(***************************************************************************)
(* C16: the request of a completion call is the system instruction, the    *)
(* turns stored for the author at that moment in their stored order, and   *)
(* the new user turn; the turns in it were all appended for the author,    *)
(* none for another user; and building the request leaves every history as *)
(* it is: a history changes in that step only by the commit, when the      *)
(* reply needs no send.                                                    *)
(***************************************************************************)
C16_Compose(e, u) ==
    Calls(e, u) =>
        LET h == user_message_cache[u]
            r == Request(e)
        IN  /\ r = RequestWith(h, e)
            /\ Len(r) = Len(h) + 2
            /\ r[1] = [role |-> "system", content |-> SYSTEM_MESSAGE]
            /\ \A i \in 1..Len(h) :
                   r[i + 1] = [role |-> h[i].role, content |-> h[i].content]
            /\ r[Len(r)] = [role |-> "user", content |-> UserText(e)]
            /\ \A i \in 1..Len(h) :
                   /\ \E j \in 1..Len(committed[u]) : committed[u][j] = h[i]
                   /\ \A v \in Users \ {u} : \A j \in 1..Len(committed[v]) :
                          committed[v][j].ex # h[i].ex
            /\ \A v \in Users \ {u} : user_message_cache'[v] = user_message_cache[v]
            /\ IF Ends(e)
               THEN LET g == user_message_cache'[u]
                    IN  /\ Len(g) >= 2
                        /\ g[Len(g) - 1] = UserTurn(e)
                        /\ \/ SubSeq(g, 1, Len(g) - 2) = h
                           \/ h # <<>> /\ SubSeq(g, 1, Len(g) - 2) = Tail(h)
               ELSE user_message_cache'[u] = h

C16_RequestFromHistory ==
    [][\A e \in Events, u \in Users : C16_Compose(e, u)]_vars

\* a call is under way for a user with no history while the other user has
\* one
C16_Witness ==
    \E e \in Events :
        /\ task[e].pc = "sending"
        /\ Len(task[e].trace[1].text) = 2
        /\ \E v \in Users \ {task[e].msg.author} : user_message_cache[v] # <<>>

(***************************************************************************)
(* C17: for every admitted event at least one typing signal is sent        *)
(* between the start of its completion call and the return or failure of   *)
(* that call.                                                              *)
(***************************************************************************)
\* the completion call of event e is over
CallOver(e) ==
    \/ task[e].pc \in {"sending", "error_notice"}
    \/ finished.ex = e /\ finished.trace # <<>> /\ finished.trace[1].kind = "call"

C17_SignalsWhileCalling ==
    \A e \in Events : CallOver(e) => signals[e] >= 1

(***************************************************************************)
(* C18: an event causes at most one completion call, exactly one when it   *)
(* is admitted; after a failure one failure notice is sent and the handler *)
(* returns normally to on_message.                                         *)
(***************************************************************************)
Count(tr, kind) == Cardinality({i \in 1..Len(tr) : tr[i].kind = kind})

\* the trace of a handler holds one call, at its start, when the handler
\* was admitted, and none otherwise
C18_OneCall ==
    /\ \A e \in Events :
           /\ Count(task[e].trace, "call") =
                  (IF task[e].pc \in {"sending", "error_notice"} THEN 1 ELSE 0)
           /\ task[e].pc \in {"sending", "error_notice"} => task[e].trace[1].kind = "call"
    /\ Count(finished.trace, "call") <= 1
    /\ Count(finished.trace, "call") =
           (IF finished.outcome \in {"replied", "failed"} THEN 1 ELSE 0)
       \/ finished.outcome = "raised"

C18_FailureReturns(e) ==
    (task[e].pc = "error_notice" /\ task'[e] # task[e]) =>
        /\ Ends(e)
        /\ finished'.outcome = "failed"
        /\ Count(finished'.trace, "error_notice") = 1
        /\ Count(finished'.trace, "call") = 1

C18_FailureCaught ==
    []C18_OneCall /\ [][\A e \in Events : C18_FailureReturns(e)]_vars

(***************************************************************************)
(* C19: a step of a handler of user u, or of a cooldown expiry of u,       *)
(* leaves the history, the cooldown flag and lastInteraction of every      *)
(* other user unchanged.                                                   *)
(***************************************************************************)
\* the users on whose behalf this step runs
ActingUsers ==
    {task[e].msg.author : e \in {d \in Events : task'[d] # task[d]}}
    \cup {task'[e].msg.author : e \in {d \in Events : task'[d] # task[d]}}
    \cup {finished'.msg.author : e \in {d \in Events : Ends(d)}}
    \cup {timer[e].user : e \in {d \in Events : timer[d].st = "pending" /\ timer'[d] # timer[d]}}

C19_OthersUnchanged ==
    \A v \in Users :
        v \notin ActingUsers =>
            /\ user_message_cache'[v] = user_message_cache[v]
            /\ user_cooldown'[v] = user_cooldown[v]
            /\ user_last_interaction'[v] = user_last_interaction[v]

C19_KeyedPerUser ==
    [][Cardinality(ActingUsers \cap Users) <= 1 /\ C19_OthersUnchanged]_vars

\* both users have a history; one is in cooldown, the other's has expired
C19_Witness ==
    \E u \in Users, v \in Users :
        /\ u # v
        /\ user_message_cache[u] # <<>>
        /\ user_message_cache[v] # <<>>
        /\ user_cooldown[u] = 0
        /\ user_cooldown[v] # 0
        /\ user_last_interaction[u].time < user_last_interaction[v].time

(***************************************************************************)
(* C20: the history is appended and the cooldown armed only after every    *)
(* chunk of the reply was sent, the chunks in their order in the reply;    *)
(* when a send raises after some chunks were sent, the exchange fails: the *)
(* history is not appended and the cooldown is not armed.                  *)
(***************************************************************************)
\* the chunks in a handler's output, in the order they were sent
RECURSIVE SentChunks(_)
SentChunks(tr) ==
    IF tr = <<>> THEN <<>>
    ELSE IF tr[1].kind = "chunk" THEN <<tr[1].text>> \o SentChunks(Tail(tr))
         ELSE SentChunks(Tail(tr))

\* what was sent so far is the beginning of the reply's chunks
C20_InOrder ==
    \A e \in Events :
        task[e].pc = "sending" =>
            /\ task[e].nsent < Len(Chunks(task[e].ai_text))
            /\ SentChunks(task[e].trace) = SubSeq(Chunks(task[e].ai_text), 1, task[e].nsent)

C20_CommitAfterDelivery ==
    \A u \in Users :
        (\/ committed'[u] # committed[u]
         \/ user_message_cache'[u] # user_message_cache[u]
         \/ (user_cooldown'[u] # user_cooldown[u] /\ user_cooldown'[u] # 0)
         \/ \E e \in Events : timer'[e] # timer[e] /\ timer'[e].st = "pending"
                               /\ timer'[e].user = u) =>
            /\ finished' # finished
            /\ finished'.outcome = "replied"
            /\ finished'.msg.author = u
            /\ LET g == committed'[u]
               IN  /\ Len(g) = Len(committed[u]) + 2
                   /\ g[Len(g)].ex = finished'.ex
                   /\ SentChunks(finished'.trace) = Chunks(g[Len(g)].content)
                   /\ Concat(SentChunks(finished'.trace)) = g[Len(g)].content

C20_PartialDeliveryFails ==
    \A e \in Events :
        (task[e].pc = "sending" /\ task'[e].pc \notin {"sending", "done"}) =>
            /\ task'[e].pc = "error_notice"
            /\ user_message_cache' = user_message_cache
            /\ user_cooldown' = user_cooldown
            /\ timer' = timer
            /\ committed' = committed

C20_DeliverThenCommit ==
    []C20_InOrder /\ [][C20_CommitAfterDelivery /\ C20_PartialDeliveryFails]_vars

\* a reply of several chunks was delivered whole and then committed
C20_Witness ==
    /\ finished.outcome = "replied"
    /\ Len(SentChunks(finished.trace)) >= 2
    /\ LET h == user_message_cache[finished.msg.author]
       IN  /\ h # <<>>
           /\ h[Len(h)].ex = finished.ex
           /\ Concat(SentChunks(finished.trace)) = h[Len(h)].content

====
